---- MODULE Spec2Model ----
(***************************************************************************)
(* Model of agents/memory.py: RingBuffer (one fixed-size circular array)   *)
(* and ReplayBuffer (one ring per transition field, uniform sampling and   *)
(* n-step TD lookahead).                                                   *)
(*                                                                         *)
(* Stored float32 scalars are modelled as integers.  A ring's `data` array *)
(* is a sequence of `maxlen` cells, physical slot p being data[p + 1].     *)
(* Exceptions are modelled as an `err` string in an operation's result;    *)
(* "none" means the call returned normally.                                *)
(*                                                                         *)
(* SpecStore runs the store on its own (appends, good and faulty, and the  *)
(* single-ring reads); SpecSample runs the training loop's use of it       *)
(* (appends interleaved with sample, lookahead and la_sample); SpecAll     *)
(* runs every method of the store.  SpecLearn runs orchestrator.py: learn  *)
(* driving the rollout generator, which steps the environment and stores   *)
(* transitions, and the training steps that sample from the store.         *)
(***************************************************************************)
EXTENDS Integers, Sequences, FiniteSets, TLC

VARIABLES capacity,      \* ReplayBuffer.capacity, fixed at construction
          ring_buffers,  \* ReplayBuffer.ring_buffers: field name -> RingBuffer
          batch,         \* the dict returned by the caller's last sample() call
          ret,           \* the last call and what it returned or raised
          fifo,          \* ghost: the bounded FIFO queue the store should equal
          nAppends,      \* ghost: number of append calls that returned normally
          nFails,        \* ghost: number of append calls that raised
          hps,           \* learn's arguments and the agent's hyper-parameters
          lrn,           \* learn: its position and its local variables
          roll           \* the rollout generator: its position and its locals

vars == <<capacity, ring_buffers, batch, ret, fifo, nAppends, nFails, hps, lrn, roll>>

\* ---------------------------------------------------------------- bounds
MaxCap == 3        \* capacities 0..MaxCap are constructed
MaxAppends == 5    \* successful appends per run
MaxFails == 1      \* failing appends per run

\* ---------------------------------------------------------------- schema
\* the fields of a transition, in the order rollout builds them and hence the
\* order ReplayBuffer.append walks self.ring_buffers
FieldOrder == <<"obs0", "acs", "obs1", "rews", "dones1">>

Fields == {FieldOrder[i] : i \in 1..Len(FieldOrder)}

Min(a, b) == IF a < b THEN a ELSE b

\* ------------------------------------------------------------ RingBuffer
\* RingBuffer.__init__: start = 0, length = 0, data = zeros(maxlen)
RingInit(maxlen) ==
  [maxlen |-> maxlen, start |-> 0, length |-> 0, data |-> [p \in 1..maxlen |-> 0]]

\* RingBuffer.__len__
RingLen(r) == r.length

\* RingBuffer.__getitem__: KeyError outside [0, length), else the cell at
\* physical slot (start + idx) % maxlen
RingGetItem(r, idx) ==
  IF idx < 0 \/ idx >= r.length
    THEN [err |-> "KeyError", val |-> 0]
    ELSE [err |-> "none", val |-> r.data[((r.start + idx) % r.maxlen) + 1]]

\* RingBuffer.get_batch: data[(start + idxs) % maxlen], no bound check.  With
\* maxlen = 0 a non-empty index array has nothing to index (IndexError).
RingGetBatch(r, idxs) ==
  IF Len(idxs) = 0 THEN [err |-> "none", vals |-> <<>>]
  ELSE IF r.maxlen = 0 THEN [err |-> "IndexError", vals |-> <<>>]
  ELSE [err |-> "none",
        vals |-> [k \in 1..Len(idxs) |-> r.data[((r.start + idxs[k]) % r.maxlen) + 1]]]

\* the assignment self.data[slot] = v: a value whose shape does not broadcast
\* to the slot raises ValueError and writes nothing
RingWrite(r, slot, v) ==
  IF v.kind = "badshape"
    THEN [ring |-> r, err |-> "ValueError"]
    ELSE [ring |-> [r EXCEPT !.data[slot + 1] = v.val], err |-> "none"]

\* RingBuffer.append as it would be if a full ring did not advance start: the
\* newest entry is overwritten and the oldest is kept
RingAppend_NoEvict(r, v) ==
  IF v.kind = "notarr"
    THEN [ring |-> r, err |-> "TypeError"]
  ELSE IF r.length < r.maxlen
    THEN LET r1 == [r EXCEPT !.length = r.length + 1]
         IN  RingWrite(r1, (r1.start + r1.length - 1) % r1.maxlen, v)
  ELSE IF r.maxlen = 0
    THEN [ring |-> r, err |-> "ZeroDivisionError"]
  ELSE RingWrite(r, (r.start + r.length - 1) % r.maxlen, v)

\* RingBuffer.append as it would be if a full ring were emptied to make room
\* for the new value
RingAppend_Restart(r, v) ==
  IF v.kind = "notarr"
    THEN [ring |-> r, err |-> "TypeError"]
  ELSE IF r.length < r.maxlen
    THEN LET r1 == [r EXCEPT !.length = r.length + 1]
         IN  RingWrite(r1, (r1.start + r1.length - 1) % r1.maxlen, v)
  ELSE IF r.maxlen = 0
    THEN [ring |-> r, err |-> "ZeroDivisionError"]
  ELSE LET r1 == [r EXCEPT !.start = 0, !.length = 1]
       IN  RingWrite(r1, 0, v)

\* RingBuffer.append as it would be if a full ring wrote the new value at its
\* new start, the slot of the oldest entry it still retains
RingAppend_WriteAtStart(r, v) ==
  IF v.kind = "notarr"
    THEN [ring |-> r, err |-> "TypeError"]
  ELSE IF r.length < r.maxlen
    THEN LET r1 == [r EXCEPT !.length = r.length + 1]
         IN  RingWrite(r1, (r1.start + r1.length - 1) % r1.maxlen, v)
  ELSE IF r.maxlen = 0
    THEN [ring |-> r, err |-> "ZeroDivisionError"]
  ELSE LET r1 == [r EXCEPT !.start = (r.start + 1) % r.maxlen]
       IN  RingWrite(r1, r1.start, v)

\* RingBuffer.append: the three branches of the source, in its statement order
\* (length / start are advanced before the slot is written)
RingAppend(r, v) ==
  IF v.kind = "notarr"
    THEN [ring |-> r, err |-> "TypeError"]
  ELSE IF r.length < r.maxlen
    THEN LET r1 == [r EXCEPT !.length = r.length + 1]
         IN  RingWrite(r1, (r1.start + r1.length - 1) % r1.maxlen, v)
  ELSE IF r.length = r.maxlen
    THEN IF r.maxlen = 0
           THEN [ring |-> r, err |-> "ZeroDivisionError"]
           ELSE LET r1 == [r EXCEPT !.start = (r.start + 1) % r.maxlen]
                IN  RingWrite(r1, (r1.start + r1.length - 1) % r1.maxlen, v)
  ELSE [ring |-> r, err |-> "RuntimeError"]

\* ----------------------------------------------------------- ReplayBuffer
\* ReplayBuffer.__init__: one ring per schema entry, all of the same capacity
ReplayInit(cap) == [f \in Fields |-> RingInit(cap)]

\* ReplayBuffer.num_entries: the length of the "obs0" ring
NumEntries(rbs) == RingLen(rbs["obs0"])

\* the loop of ReplayBuffer.append from field number i on: a value that is not
\* an array raises TypeError, a ring's append may raise; either ends the loop
\* with the rings already visited left as they are
RECURSIVE AppendFrom(_, _, _)
AppendFrom(rbs, tr, i) ==
  IF i > Len(FieldOrder) THEN [rbs |-> rbs, err |-> "none"]
  ELSE LET k == FieldOrder[i]
       IN  IF tr[k].kind = "notarr"
             THEN [rbs |-> rbs, err |-> "TypeError"]
             ELSE LET a == RingAppend(rbs[k], tr[k])
                      rbs1 == [rbs EXCEPT ![k] = a.ring]
                  IN  IF a.err # "none"
                        THEN [rbs |-> rbs1, err |-> a.err]
                        ELSE AppendFrom(rbs1, tr, i + 1)

\* ReplayBuffer.append: the key sets must coincide, then every ring is appended
ReplayAppend(rbs, tr) ==
  IF DOMAIN tr # Fields
    THEN [rbs |-> rbs, err |-> "AssertionError"]
    ELSE AppendFrom(rbs, tr, 1)

\* latest_entry_idx as it would be if it returned the logical index
LatestEntryIdx_Logical(rbs) ==
  [err |-> "none", val |-> rbs["obs0"].length - 1]

\* ReplayBuffer.latest_entry_idx: (start + length - 1) % maxlen of the obs0 ring
LatestEntryIdx(rbs) ==
  LET pick == rbs["obs0"]
  IN  IF pick.maxlen = 0
        THEN [err |-> "ZeroDivisionError", val |-> 0]
        ELSE [err |-> "none", val |-> (pick.start + pick.length - 1) % pick.maxlen]

\* ReplayBuffer.batchify: get_batch of every ring at the same indices (the
\* rank promotion of array_min2d changes shapes only, not the values), plus
\* the indices themselves under "idxs"
Batchify(rbs, idxs) ==
  IF \E f \in Fields : RingGetBatch(rbs[f], idxs).err # "none"
    THEN [err |-> "IndexError", tr |-> <<>>]
    ELSE [err |-> "none",
          tr |-> [f \in Fields \cup {"idxs"} |->
                    IF f = "idxs" THEN idxs ELSE RingGetBatch(rbs[f], idxs).vals]]

\* the reward relabeler handed in as `patcher`: some fixed function of
\* (obs0, acs, obs1), applied row by row
Patcher(obs0, acs, obs1) ==
  [k \in 1..Len(obs0) |-> obs0[k] + acs[k] - obs1[k]]

\* the patching step as it would be if the patcher were never applied
PatchRews_Never(tr, patcher) == tr

\* the patching step of sample and lookahead: with a patcher the "rews" entry
\* of the dict is replaced by the patcher's output
PatchRews(tr, patcher) ==
  IF patcher = "none" THEN tr
  ELSE [tr EXCEPT !["rews"] = Patcher(tr["obs0"], tr["acs"], tr["obs1"])]

\* integers as it would be if an empty range were not refused: index 0 is drawn
Integers0_NoRangeCheck(num, batch_size) ==
  IF batch_size < 0 THEN {}
  ELSE IF batch_size = 0 THEN {<<>>}
  ELSE [1..batch_size -> 0..(IF num <= 0 THEN 0 ELSE num - 1)]

\* np_rng.integers(low=0, high=num, size=batch_size): the set of index arrays
\* it can return; the empty set stands for ValueError (negative size, or
\* low >= high with a non-empty size)
Integers0(num, batch_size) ==
  IF batch_size < 0 THEN {}
  ELSE IF batch_size = 0 THEN {<<>>}
  ELSE IF num <= 0 THEN {}
  ELSE [1..batch_size -> 0..(num - 1)]

\* ReplayBuffer.sample once the indices are drawn
SampleAt(rbs, idxs, patcher) ==
  LET b == Batchify(rbs, idxs)
  IN  IF b.err # "none" THEN b ELSE [err |-> "none", tr |-> PatchRews(b.tr, patcher)]

\* --------------------------------------------------------------- lookahead
GammaDen == 2   \* gamma is the rational g / GammaDen, g = 0..GammaDen + 1

\* helpers.math_util.discount (not part of the sources at hand): the backward
\* recurrence y[k] = x[k] + gamma * y[k + 1], y[last] = x[last].  DiscountAt is
\* y[k] as the fraction num / den with den = GammaDen ^ (Len(x) - k).
RECURSIVE DiscountAt(_, _, _)
DiscountAt(x, g, k) ==
  IF k >= Len(x) THEN [num |-> x[k], den |-> 1]
  ELSE LET t == DiscountAt(x, g, k + 1)
       IN  [num |-> x[k] * t.den * GammaDen + g * t.num, den |-> t.den * GammaDen]

Discount(x, g) == [k \in 1..Len(x) |-> DiscountAt(x, g, k)]

\* the window end as it would be without the clamp to the store's length
LaEndIdx_NoClamp(idx, n, num) == idx + n - 1

\* la_end_idx = min(idx + n, self.num_entries) - 1
LaEndIdx(idx, n, num) == Min(idx + n, num) - 1

\* the window as it would be if it began at the oldest entry of the store
LaIdxs_FromZero(idx, la_end_idx) == [k \in 1..(la_end_idx - idx + 1) |-> k - 1]

\* la_idxs = np.array(range(idx, la_end_idx + 1))
LaIdxs(idx, la_end_idx) == [k \in 1..(la_end_idx - idx + 1) |-> idx + k - 1]

\* list(dones).index(1.0): offset of the first flag equal to 1
FirstIndex(dones) == CHOOSE k \in 1..Len(dones) :
                       dones[k] = 1 /\ \A j \in 1..(k - 1) : dones[j] # 1

\* the episode end as it would be if the last terminal flag of the window
\* were taken instead of the first
EpEndIdx_Last(idx, dones, la_end_idx) ==
  IF \E k \in 1..Len(dones) : dones[k] = 1
    THEN idx + ((CHOOSE k \in 1..Len(dones) :
                   dones[k] = 1 /\ \A j \in (k + 1)..Len(dones) : dones[j] # 1) - 1)
    ELSE la_end_idx

\* ep_end_idx = idx + list(dones).index(1.0) if 1.0 in dones else la_end_idx
EpEndIdx(idx, dones, la_end_idx) ==
  IF \E k \in 1..Len(dones) : dones[k] = 1
    THEN idx + (FirstIndex(dones) - 1)
    ELSE la_end_idx

\* the trim flag as it would be with its two values swapped
LaIsTrimmed_Swapped(ep_end_idx, la_end_idx) == IF ep_end_idx = la_end_idx THEN 1 ELSE 0

\* la_is_trimmed = 0.0 if ep_end_idx == la_end_idx else 1.0
LaIsTrimmed(ep_end_idx, la_end_idx) == IF ep_end_idx = la_end_idx THEN 0 ELSE 1

\* td_len = ep_end_idx - idx + 1
TdLen(ep_end_idx, idx) == ep_end_idx - idx + 1

\* the rewards summed as they would be if the run were not cut to td_len
LaRews_NoTrim(rews, td_len) == rews

\* la_rews = la_transitions["rews"][:td_len]
LaRews(rews, td_len) == SubSeq(rews, 1, Min(td_len, Len(rews)))

\* the body of lookahead's loop for one idx.  An empty range becomes a float
\* array, which cannot index a ring's data (IndexError).
LookaheadOne(rbs, idx, n, g, patcher) ==
  LET la_end_idx == LaEndIdx(idx, n, NumEntries(rbs))
      la_idxs == LaIdxs(idx, la_end_idx)
      b == Batchify(rbs, la_idxs)
  IN  IF Len(la_idxs) = 0 \/ b.err # "none"
        THEN [err |-> "IndexError", rec |-> <<>>]
        ELSE LET la_transitions == PatchRews(b.tr, patcher)
                 ep_end_idx == EpEndIdx(idx, la_transitions["dones1"], la_end_idx)
                 td_len == TdLen(ep_end_idx, idx)
                 la_rews == LaRews(la_transitions["rews"], td_len)
             IN  [err |-> "none",
                  rec |-> [obs0 |-> la_transitions["obs0"][1],
                           obs1 |-> la_transitions["obs1"][td_len],
                           acs |-> la_transitions["acs"][1],
                           rews |-> Discount(la_rews, g)[1],
                           dones1 |-> LaIsTrimmed(ep_end_idx, la_end_idx),
                           td_len |-> td_len,
                           obs1_td1 |-> la_transitions["obs1"][1]]]

\* ReplayBuffer.lookahead: the gamma assertion, then the loop over
\* transitions["idxs"]; the first idx that raises ends the call
Lookahead(rbs, idxs, n, g, patcher) ==
  IF g < 0 \/ g > GammaDen THEN [err |-> "AssertionError", la |-> <<>>]
  ELSE IF \E k \in 1..Len(idxs) : LookaheadOne(rbs, idxs[k], n, g, patcher).err # "none"
    THEN [err |-> "IndexError", la |-> <<>>]
    ELSE [err |-> "none",
          la |-> [k \in 1..Len(idxs) |-> LookaheadOne(rbs, idxs[k], n, g, patcher).rec]]

\* ------------------------------------------------------------------ inputs
MaxN == 3       \* horizons 0..MaxN are requested

Dones == {0, 1}
\* the batch sizes requested: an invalid one, the empty batch and one index
\* (sample and lookahead treat the indices of a batch one by one)
BatchSizes == {-1, 0, 1}
Horizons == 0..MaxN
Gammas == 0..(GammaDen + 1)
Patchers == {"none", "patcher"}

\* the fields a faulty transition has its fault in: the first ring visited and
\* a later one
BadFields == {"obs0", "rews"}

Arr(x) == [kind |-> "arr", val |-> x]

\* the transition rollout stores at its s-th call of store_transition, s
\* being the serial number of the call: every field but the terminal flag
\* carries the serial in its own way, so that no two fields and no two
\* transitions hold the same value
GoodTransition(s, d) ==
  [f \in Fields |->
     CASE f = "obs0" -> Arr(s)
       [] f = "acs" -> Arr(100 + s)
       [] f = "obs1" -> Arr(s + 1)
       [] f = "rews" -> Arr(10 * s)
       [] f = "dones1" -> Arr(d)]

\* the same transition with one thing wrong: a value that is no array, a
\* value of the wrong shape, a key missing, a key too many
BadTransitions(s, d) ==
  LET t == GoodTransition(s, d)
  IN  {[t EXCEPT ![f].kind = k] : f \in BadFields, k \in {"notarr", "badshape"}}
        \cup {[f \in Fields \ {"rews"} |-> t[f]]}
        \cup {[f \in Fields \cup {"extra"} |-> IF f = "extra" THEN Arr(0) ELSE t[f]]}

Vals(tr) == [f \in Fields |-> tr[f].val]

\* the bounded FIFO queue of capacity cap after one more value
Push(q, cap, x) ==
  IF cap = 0 THEN q
  ELSE IF Len(q) < cap THEN Append(q, x) ELSE Append(Tail(q), x)

NoBatch == [has |-> FALSE, tr |-> <<>>]

\* no call is in progress: the caller has taken the last call's outcome
Idle == [op |-> "idle", err |-> "none"]

\* ------------------------------------------------------------ orchestrator
MaxRolloutLen == 2     \* args.rollout_len is 1..MaxRolloutLen
MaxEpisodeSteps == 2   \* env._max_episode_steps is 1..MaxEpisodeSteps
MaxTimesteps == 4      \* args.num_timesteps

\* what learn is called with: its args, the agent's hps and the time limit of
\* the environment
Configs ==
  [rollout_len : 1..MaxRolloutLen,
   num_timesteps : {MaxTimesteps},
   training_steps_per_iter : {1, 2},
   g_steps : {0, 1},
   d_steps : {1},
   eval_frequency : {2},
   wrap_absorb : BOOLEAN,
   max_episode_steps : 1..MaxEpisodeSteps]

\* learn has not been called
NoConfig == [called |-> FALSE]

\* learn before its call: the counters it starts from, no phase entered
LearnIdle ==
  [pc |-> "idle", num_iters |-> 0, iters_so_far |-> 0, timesteps_so_far |-> 0,
   training_step |-> 0, g |-> 0, d |-> 0, evaluated |-> FALSE,
   interacted |-> FALSE, sampled |-> FALSE]

\* the generator object rollout(env, agent, rollout_len) returns: no line of
\* its body has run
RollCreated ==
  [pc |-> "created", suspended |-> FALSE, t |-> 0, done |-> FALSE, elapsed_steps |-> 0,
   stored |-> <<>>, limit |-> FALSE, nSteps |-> 0, nTerminal |-> 0]

\* ----------------------------------------------------------------- actions
Init ==
  /\ hps = NoConfig
  /\ lrn = LearnIdle
  /\ roll = RollCreated
  /\ capacity \in 0..MaxCap
  /\ ring_buffers = ReplayInit(capacity)
  /\ batch = NoBatch
  /\ ret = Idle
  /\ fifo = <<>>
  /\ nAppends = 0
  /\ nFails = 0

\* a call of ReplayBuffer.append with transition tr
DoAppend(tr) ==
  LET res == ReplayAppend(ring_buffers, tr)
  IN  /\ ret = Idle
      /\ ring_buffers' = res.rbs
      /\ ret' = [op |-> "append", err |-> res.err, keys |-> (DOMAIN tr = Fields)]
      /\ IF res.err = "none"
           THEN /\ nAppends < MaxAppends
                /\ nAppends' = nAppends + 1
                /\ fifo' = Push(fifo, capacity, Vals(tr))
                /\ UNCHANGED nFails
           ELSE /\ nFails < MaxFails
                /\ nFails' = nFails + 1
                /\ UNCHANGED <<nAppends, fifo>>
      /\ UNCHANGED <<capacity, batch, hps, lrn, roll>>

AppendGood ==
  \E d \in Dones :
    DoAppend(GoodTransition(nAppends + nFails + 1, d))

AppendBad ==
  \E d \in Dones :
    \E tr \in BadTransitions(nAppends + nFails + 1, d) : DoAppend(tr)

\* the @beartype check of ReplayBuffer.append's argument may reject a dict
\* holding a non-array before the body runs (it inspects one item of a dict)
AppendRejected ==
  /\ ret = Idle
  /\ nFails < MaxFails
  /\ \E d \in Dones :
       \E tr \in BadTransitions(nAppends + nFails + 1, d) :
         /\ DOMAIN tr = Fields
         /\ \E f \in Fields : tr[f].kind = "notarr"
         /\ ret' = [op |-> "append", err |-> "BeartypeError", keys |-> TRUE]
  /\ nFails' = nFails + 1
  /\ UNCHANGED <<capacity, ring_buffers, batch, fifo, nAppends, hps, lrn, roll>>

\* batch = sample(batch_size, patcher)
Sample ==
  \E batch_size \in BatchSizes, patcher \in Patchers :
    LET draws == Integers0(NumEntries(ring_buffers), batch_size)
    IN  /\ ret = Idle
        /\ IF draws = {}
             THEN /\ ret' = [op |-> "sample", err |-> "ValueError",
                             batch_size |-> batch_size, patcher |-> patcher]
                  /\ UNCHANGED batch
             ELSE \E idxs \in draws :
                    LET res == SampleAt(ring_buffers, idxs, patcher)
                    IN  /\ ret' = [op |-> "sample", err |-> res.err,
                                   batch_size |-> batch_size, patcher |-> patcher]
                        /\ batch' = IF res.err = "none"
                                      THEN [has |-> TRUE, tr |-> res.tr]
                                      ELSE batch
        /\ UNCHANGED <<capacity, ring_buffers, fifo, nAppends, nFails, hps, lrn, roll>>

\* lookahead(batch, n, gamma, patcher) on the batch of the last sample call,
\* which the caller then lets go of
LookaheadCall ==
  /\ ret = Idle
  /\ batch.has
  /\ \E n \in Horizons, g \in Gammas, patcher \in Patchers :
       LET res == Lookahead(ring_buffers, batch.tr["idxs"], n, g, patcher)
       IN  ret' = [op |-> "lookahead", err |-> res.err, la |-> res.la,
                   idxs |-> batch.tr["idxs"], n |-> n, g |-> g, patcher |-> patcher,
                   sampled |-> [obs0 |-> batch.tr["obs0"], acs |-> batch.tr["acs"]]]
  /\ batch' = NoBatch
  /\ UNCHANGED <<capacity, ring_buffers, fifo, nAppends, nFails, hps, lrn, roll>>

\* la_sample(batch_size, n, gamma, patcher): sample, then lookahead
LaSample ==
  /\ ret = Idle
  /\ \E batch_size \in BatchSizes, n \in Horizons, g \in Gammas, patcher \in Patchers :
       LET draws == Integers0(NumEntries(ring_buffers), batch_size)
       IN  IF draws = {}
             THEN ret' = [op |-> "la_sample", err |-> "ValueError", la |-> <<>>,
                          idxs |-> <<>>, batch_size |-> batch_size, g |-> g]
             ELSE \E idxs \in draws :
                    LET s == SampleAt(ring_buffers, idxs, patcher)
                        res == IF s.err # "none" THEN [err |-> s.err, la |-> <<>>]
                               ELSE Lookahead(ring_buffers, s.tr["idxs"], n, g, patcher)
                    IN  ret' = [op |-> "la_sample", err |-> res.err, la |-> res.la,
                                idxs |-> idxs, batch_size |-> batch_size, g |-> g]
  /\ UNCHANGED <<capacity, ring_buffers, batch, fifo, nAppends, nFails, hps, lrn, roll>>

\* ring_buffers[f][idx]
GetItem ==
  \E f \in Fields, idx \in (-1)..capacity :
    LET res == RingGetItem(ring_buffers[f], idx)
    IN  /\ ret = Idle
        /\ ret' = [op |-> "get", err |-> res.err, val |-> res.val, f |-> f, idx |-> idx]
        /\ UNCHANGED <<capacity, ring_buffers, batch, fifo, nAppends, nFails, hps, lrn, roll>>

\* the index arrays handed to get_batch: one or two indices, each below, inside
\* or beyond the ring
IdxArrays == [1..1 -> (-1)..capacity] \cup [1..2 -> (-1)..capacity]

\* ring_buffers[f].get_batch(idxs)
GetBatch ==
  \E f \in Fields, idxs \in IdxArrays :
    LET res == RingGetBatch(ring_buffers[f], idxs)
    IN  /\ ret = Idle
        /\ ret' = [op |-> "get_batch", err |-> res.err, vals |-> res.vals,
                   f |-> f, idxs |-> idxs]
        /\ UNCHANGED <<capacity, ring_buffers, batch, fifo, nAppends, nFails, hps, lrn, roll>>

\* the property latest_entry_idx
LatestEntry ==
  LET res == LatestEntryIdx(ring_buffers)
  IN  /\ ret = Idle
      /\ ret' = [op |-> "latest_entry_idx", err |-> res.err, val |-> res.val]
      /\ UNCHANGED <<capacity, ring_buffers, batch, fifo, nAppends, nFails, hps, lrn, roll>>

\* the caller takes the outcome of the call it made (the value returned or the
\* exception raised) and is free to make its next call
TakeResult ==
  /\ ret # Idle
  /\ ret' = Idle
  /\ UNCHANGED <<capacity, ring_buffers, batch, fifo, nAppends, nFails, hps, lrn, roll>>

\* the store on its own: appends, good and faulty, and the single-ring reads
NextStore ==
  \/ AppendGood
  \/ AppendBad
  \/ AppendRejected
  \/ GetItem
  \/ LatestEntry
  \/ TakeResult

SpecStore == Init /\ [][NextStore]_vars

\* the training loop's use of the store: transitions are stored, batches are
\* sampled and expanded by lookahead, in any interleaving
NextSample ==
  \/ AppendGood
  \/ Sample
  \/ LookaheadCall
  \/ LaSample
  \/ TakeResult

SpecSample == Init /\ [][NextSample]_vars

\* every operation of the store, reads on a single ring and sampling alike,
\* between appends that store their transition
NextAll ==
  \/ AppendGood
  \/ GetItem
  \/ GetBatch
  \/ LatestEntry
  \/ Sample
  \/ LookaheadCall
  \/ LaSample
  \/ TakeResult

SpecAll == Init /\ [][NextAll]_vars

\* ------------------------------------------------- orchestrator: rollout
\* the store's variables, which learn's own steps leave alone
storeVars == <<capacity, ring_buffers, batch, ret, fifo, nAppends, nFails>>

\* the yield of rollout as it would be if it stood between the two
\* store_transition calls of a wrapped terminal step
YieldsAt_BeforeAbsorbing(pc, t, rollout_len) == pc = "absorb"

\* the yield of rollout as it would be without its `t > 0` test: the first
\* __next__() would return before any environment step
YieldsAt_NoFirstGuard(pc, t, rollout_len) == pc = "predict" /\ t % rollout_len = 0

\* `if t > 0 and t % rollout_len == 0: yield`: it stands at the top of the
\* loop, after the action is predicted and before the environment is stepped
YieldsAt(pc, t, rollout_len) == pc = "predict" /\ t > 0 /\ t % rollout_len = 0

\* the wrapping test as it would be if it did not look at the time limit
StoresAbsorbing_AnyDone(wrap_absorb, done, elapsed_steps, max_episode_steps) ==
  wrap_absorb /\ done

\* `if agent.hps.wrap_absorb:` and, inside it,
\* `if done and not env._elapsed_steps == env._max_episode_steps:`
StoresAbsorbing(wrap_absorb, done, elapsed_steps, max_episode_steps) ==
  wrap_absorb /\ done /\ ~(elapsed_steps = max_episode_steps)

\* the done flags env.step can return once _elapsed_steps is elapsed_steps:
\* the environment may end the episode at any step, and the time limit whose
\* counters rollout reads ends it at step number max_episode_steps
EnvDones(elapsed_steps, max_episode_steps) ==
  IF elapsed_steps >= max_episode_steps THEN {TRUE} ELSE BOOLEAN

\* the transition of an environment step, s being the serial of the
\* store_transition call: as GoodTransition, with the flag done and, when the
\* step is wrapped, the absorbing observation (zeros) as obs1
RolloutTransition(s, done, absorbing) ==
  [f \in Fields |->
     CASE f = "obs0" -> Arr(s)
       [] f = "acs" -> Arr(100 + s)
       [] f = "obs1" -> Arr(IF absorbing THEN 0 ELSE s + 1)
       [] f = "rews" -> Arr(10 * s)
       [] f = "dones1" -> Arr(IF done THEN 1 ELSE 0)]

\* the synthetic transition from the absorbing observation to itself
AbsorbingTransition(s, done) ==
  [f \in Fields |->
     CASE f = "rews" -> Arr(10 * s)
       [] f = "dones1" -> Arr(IF done THEN 1 ELSE 0)
       [] OTHER -> Arr(0)]

\* agent.store_transition (not part of the sources at hand): one append of the
\* transition to the store
StoreTransition(rbs, tr) == ReplayAppend(rbs, tr)

\* agent.sample_batch (not part of the sources at hand): one draw of indices
\* from the store, which raises when there is nothing to draw from
SampleBatch(rbs) ==
  IF Integers0(NumEntries(rbs), 1) = {} THEN "ValueError" ELSE "none"

\* the generator runs (learn is inside roll_gen.__next__()), stands at pc and
\* is not held there by the yield
Runs(pc) ==
  /\ lrn.pc = "next"
  /\ roll.pc = pc
  /\ YieldsAt(roll.pc, roll.t, hps.rollout_len) => roll.suspended

\* lines 25-29: t = 0, the noise and the environment are reset
RollStart ==
  /\ Runs("created")
  /\ roll' = [roll EXCEPT !.pc = "predict", !.suspended = FALSE, !.t = 0,
                          !.elapsed_steps = 0]
  /\ UNCHANGED <<storeVars, hps, lrn>>

\* lines 33-39: the action is predicted; the yield is not due, or has been
\* resumed from
RollPredict ==
  /\ Runs("predict")
  /\ roll' = [roll EXCEPT !.pc = "step", !.suspended = FALSE]
  /\ UNCHANGED <<storeVars, hps, lrn>>

\* the yield: the generator is suspended where it stands and
\* roll_gen.__next__() returns to learn
RollYield ==
  /\ lrn.pc = "next"
  /\ YieldsAt(roll.pc, roll.t, hps.rollout_len)
  /\ ~roll.suspended
  /\ roll' = [roll EXCEPT !.suspended = TRUE]
  /\ lrn' = [lrn EXCEPT !.pc = "returned", !.interacted = TRUE]
  /\ UNCHANGED <<storeVars, hps>>

\* line 43: new_ob, _, done, _ = env.step(ac)
RollStep ==
  /\ Runs("step")
  /\ \E done \in EnvDones(roll.elapsed_steps + 1, hps.max_episode_steps) :
       LET limit == (roll.elapsed_steps + 1 = hps.max_episode_steps)
       IN  roll' = [roll EXCEPT !.pc = "store", !.suspended = FALSE, !.done = done,
                                !.elapsed_steps = @ + 1, !.stored = <<>>,
                                !.limit = limit, !.nSteps = @ + 1,
                                !.nTerminal = IF done /\ ~limit THEN @ + 1 ELSE @]
  /\ UNCHANGED <<storeVars, hps, lrn>>

\* a store_transition call of rollout: the transition is appended and the
\* generator goes on to next_pc, or the call raises, which ends the generator
\* and, through __next__, learn
DoStore(tr, kind, next_pc) ==
  LET res == StoreTransition(ring_buffers, tr)
  IN  /\ ring_buffers' = res.rbs
      /\ IF res.err = "none"
           THEN /\ nAppends' = nAppends + 1
                /\ fifo' = Push(fifo, capacity, Vals(tr))
                /\ roll' = [roll EXCEPT !.pc = next_pc, !.suspended = FALSE,
                                        !.stored = Append(@, kind)]
                /\ UNCHANGED <<nFails, lrn>>
           ELSE /\ nFails' = nFails + 1
                /\ roll' = [roll EXCEPT !.pc = "closed", !.suspended = FALSE]
                /\ lrn' = [lrn EXCEPT !.pc = "raised"]
                /\ UNCHANGED <<nAppends, fifo>>
      /\ UNCHANGED <<capacity, batch, ret, hps>>

\* lines 63, 95, 106: the step's own transition is stored
RollStore ==
  /\ Runs("store")
  /\ LET absorbing == StoresAbsorbing(hps.wrap_absorb, roll.done, roll.elapsed_steps,
                                      hps.max_episode_steps)
     IN  DoStore(RolloutTransition(nAppends + nFails + 1, roll.done, absorbing), "real",
                 IF absorbing THEN "absorb" ELSE "advance")

\* lines 64-80: the absorbing transition is stored
RollAbsorb ==
  /\ Runs("absorb")
  /\ DoStore(AbsorbingTransition(nAppends + nFails + 1, roll.done), "absorbing", "advance")

\* lines 108-117: ob = new_ob, the environment is reset after a done, t += 1
RollAdvance ==
  /\ Runs("advance")
  /\ roll' = [roll EXCEPT !.pc = "predict", !.suspended = FALSE, !.t = @ + 1,
                          !.elapsed_steps = IF roll.done THEN 0 ELSE @]
  /\ UNCHANGED <<storeVars, hps, lrn>>

\* --------------------------------------------------- orchestrator: learn
\* the loop body as it would be with the training steps ahead of the rollout
PhaseAfter_TrainFirst(phase) ==
  CASE phase = "head" -> "train"
    [] phase = "train" -> "interact"
    [] phase = "returned" -> "eval"
    [] phase = "eval" -> "count"
    [] OTHER -> "head"

\* the order of learn's loop body: the while test, roll_gen.__next__(), the
\* training steps, the evaluation, the counters
PhaseAfter(phase) ==
  CASE phase = "head" -> "interact"
    [] phase = "returned" -> "train"
    [] phase = "train" -> "eval"
    [] phase = "eval" -> "count"
    [] OTHER -> "head"

\* learn is called: lines 219-269, up to the creation of the generator
LearnStart ==
  /\ lrn.pc = "idle"
  /\ \E c \in Configs :
       /\ hps' = c
       /\ lrn' = [LearnIdle EXCEPT !.pc = "head",
                                   !.num_iters = c.num_timesteps \div c.rollout_len]
  /\ UNCHANGED <<storeVars, roll>>

\* line 273: while iters_so_far <= num_iters
LearnWhile ==
  /\ lrn.pc = "head"
  /\ lrn' = [lrn EXCEPT !.pc = IF lrn.iters_so_far <= lrn.num_iters
                                 THEN PhaseAfter("head") ELSE "end"]
  /\ UNCHANGED <<storeVars, hps, roll>>

\* line 279: roll_gen.__next__(); the generator runs until it yields
LearnInteract ==
  /\ lrn.pc = "interact"
  /\ lrn' = [lrn EXCEPT !.pc = "next"]
  /\ UNCHANGED <<storeVars, hps, roll>>

\* roll_gen.__next__() has returned: learn goes on with what follows it
LearnReturned ==
  /\ lrn.pc = "returned"
  /\ lrn' = [lrn EXCEPT !.pc = PhaseAfter("returned")]
  /\ UNCHANGED <<storeVars, hps, roll>>

\* line 282: for training_step in range(args.training_steps_per_iter)
LearnTrain ==
  /\ lrn.pc = "train"
  /\ lrn' = IF lrn.training_step < hps.training_steps_per_iter
              THEN [lrn EXCEPT !.pc = "g_loop", !.g = 0]
              ELSE [lrn EXCEPT !.pc = PhaseAfter("train"), !.training_step = 0]
  /\ UNCHANGED <<storeVars, hps, roll>>

\* a sample_batch call and the update that consumes the batch; an exception
\* of sample_batch ends learn
DoSample(after) ==
  /\ lrn' = IF SampleBatch(ring_buffers) = "none"
              THEN [after EXCEPT !.sampled = TRUE]
              ELSE [lrn EXCEPT !.pc = "raised", !.sampled = TRUE]
  /\ UNCHANGED <<storeVars, hps, roll>>

\* lines 294-309: one pass of the g_steps loop
LearnGStep ==
  /\ lrn.pc = "g_loop"
  /\ lrn.g < hps.g_steps
  /\ DoSample([lrn EXCEPT !.g = @ + 1])

\* the g_steps loop is over: line 311
LearnGDone ==
  /\ lrn.pc = "g_loop"
  /\ lrn.g >= hps.g_steps
  /\ lrn' = [lrn EXCEPT !.pc = "d_loop", !.d = 0]
  /\ UNCHANGED <<storeVars, hps, roll>>

\* lines 311-318: one pass of the d_steps loop
LearnDStep ==
  /\ lrn.pc = "d_loop"
  /\ lrn.d < hps.d_steps
  /\ DoSample([lrn EXCEPT !.d = @ + 1])

\* the d_steps loop is over: the next training step
LearnDDone ==
  /\ lrn.pc = "d_loop"
  /\ lrn.d >= hps.d_steps
  /\ lrn' = [lrn EXCEPT !.pc = "train", !.training_step = @ + 1]
  /\ UNCHANGED <<storeVars, hps, roll>>

\* lines 320-328: every eval_frequency-th iteration the worker of rank 0 runs
\* evaluation episodes, in eval_env and without storing anything
LearnEval ==
  /\ lrn.pc = "eval"
  /\ lrn' = [lrn EXCEPT !.pc = PhaseAfter("eval"),
                        !.evaluated = (lrn.iters_so_far % hps.eval_frequency = 0)]
  /\ UNCHANGED <<storeVars, hps, roll>>

\* lines 331-332: iters_so_far += 1; timesteps_so_far += args.rollout_len
LearnCount ==
  /\ lrn.pc = "count"
  /\ lrn' = [lrn EXCEPT !.pc = PhaseAfter("count"),
                        !.iters_so_far = @ + 1,
                        !.timesteps_so_far = @ + hps.rollout_len,
                        !.evaluated = FALSE, !.interacted = FALSE, !.sampled = FALSE]
  /\ UNCHANGED <<storeVars, hps, roll>>

\* learn, the rollout generator it drives and the store they share
NextLearn ==
  \/ LearnStart
  \/ LearnWhile
  \/ LearnInteract
  \/ LearnReturned
  \/ LearnTrain
  \/ LearnGStep
  \/ LearnGDone
  \/ LearnDStep
  \/ LearnDDone
  \/ LearnEval
  \/ LearnCount
  \/ RollStart
  \/ RollPredict
  \/ RollYield
  \/ RollStep
  \/ RollStore
  \/ RollAbsorb
  \/ RollAdvance

SpecLearn == Init /\ [][NextLearn]_vars

\* ======================================================== claims: the store
\* the value of field f in the transition of serial s (its terminal flag aside)
SerialValue(f, s) ==
  CASE f = "obs0" -> s
    [] f = "acs" -> 100 + s
    [] f = "obs1" -> s + 1
    [] f = "rews" -> 10 * s
    [] OTHER -> 0

\* C1: a ring of capacity c >= 1 that took m appends v_1..v_m, all of them
\* stored, holds L = min(m, c) entries and get(i) is v_(m-L+i+1) for every
\* i in [0, L): the last L values appended, oldest first (the serial of the
\* j-th transition is j; its terminal flag is the one the FIFO queue holds).
C1_BoundedFifo ==
  (capacity >= 1 /\ nFails = 0) =>
    LET L == Min(nAppends, capacity)
    IN  /\ Len(fifo) = L
        /\ \A f \in Fields :
             /\ RingLen(ring_buffers[f]) = L
             /\ \A i \in 0..(L - 1) :
                  LET got == RingGetItem(ring_buffers[f], i)
                  IN  /\ got.err = "none"
                      /\ got.val = fifo[i + 1][f]
                      /\ f # "dones1" => got.val = SerialValue(f, nAppends - L + i + 1)

\* C1 witness: capacity 3, rewards 10, 20, 30, 40 appended; get(0) of the
\* rewards ring has just returned 20 and get(2) is 40
C1_Witness ==
  /\ capacity = 3 /\ nAppends = 4 /\ nFails = 0
  /\ ret.op = "get" /\ ret.f = "rews" /\ ret.idx = 0 /\ ret.err = "none" /\ ret.val = 20
  /\ RingGetItem(ring_buffers["rews"], 2).val = 40

\* C2: in every state and for every ring, 0 <= length <= capacity and
\* 0 <= start < capacity, and append never takes its RuntimeError branch.
C2_CapacityInvariant ==
  /\ \A f \in Fields :
       LET r == ring_buffers[f]
       IN  /\ 0 <= r.length /\ r.length <= r.maxlen
           /\ 0 <= r.start /\ r.start < r.maxlen
  /\ ret.err # "RuntimeError"

\* C2, the step part: every call of a ring's append that gets to the ring
\* leaves its length at min(previous length + 1, capacity)
C2_AppendLength ==
  [][\A f \in Fields :
       ring_buffers'[f] # ring_buffers[f] =>
         ring_buffers'[f].length = Min(ring_buffers[f].length + 1, capacity)]_vars

\* C3: after any sequence of ReplayBuffer.append calls every ring has the same
\* length and the same start, so num_entries is the length of every ring.
C3_Synchronized ==
  \A f \in Fields :
    /\ ring_buffers[f].length = ring_buffers["obs0"].length
    /\ ring_buffers[f].start = ring_buffers["obs0"].start
    /\ NumEntries(ring_buffers) = RingLen(ring_buffers[f])

\* C7: an append call that raises leaves every ring's start, length and data
\* as they were before the call.
C7_AllOrNothing ==
  [][(ret'.op = "append" /\ ret'.err # "none") => ring_buffers' = ring_buffers]_vars

\* C9 as claimed: after one or more appends latest_entry_idx is the logical
\* index of the most recent entry, num_entries - 1, wrapped or not.
C9_LatestIsLogical ==
  (ret.op = "latest_entry_idx" /\ nAppends >= 1 /\ nFails = 0) =>
    /\ ret.err = "none"
    /\ ret.val = NumEntries(ring_buffers) - 1

\* C9 amended: after one or more appends latest_entry_idx is the physical
\* slot of the most recent entry (the slot of data holding the value last
\* appended, in every ring); it is num_entries - 1 while start = 0.
C9_LatestIsLastWritten ==
  (ret.op = "latest_entry_idx" /\ nAppends >= 1 /\ nFails = 0) =>
    /\ ret.err = "none"
    /\ ret.val \in 0..(capacity - 1)
    /\ \A f \in Fields : ring_buffers[f].data[ret.val + 1] = fifo[Len(fifo)][f]
    /\ ring_buffers["obs0"].data[ret.val + 1] = nAppends
    /\ ring_buffers["obs0"].start = 0 => ret.val = NumEntries(ring_buffers) - 1

\* C9 witness: capacity 3 after 4 appends; the newest entry is at logical
\* index 2 and latest_entry_idx has returned slot 0
C9_Witness ==
  /\ ret.op = "latest_entry_idx" /\ ret.err = "none"
  /\ capacity = 3 /\ nAppends = 4 /\ nFails = 0
  /\ ret.val = 0 /\ NumEntries(ring_buffers) - 1 = 2

\* C11 as claimed: get_batch(idxs) returns get(idx) for every idx when all of
\* them are in [0, length), and raises, as get does, when one of them is not.
C11_GetBatchIsVectorGet ==
  (ret.op = "get_batch" /\ capacity >= 1 /\ nFails = 0) =>
    LET r == ring_buffers[ret.f]
    IN  IF \A k \in 1..Len(ret.idxs) : RingGetItem(r, ret.idxs[k]).err = "none"
          THEN /\ ret.err = "none"
               /\ \A k \in 1..Len(ret.idxs) : ret.vals[k] = RingGetItem(r, ret.idxs[k]).val
          ELSE ret.err # "none"

\* C11, the part that holds: where every idx is in [0, length), get_batch
\* returns what get returns, index by index
C11_InRangeAgrees ==
  (ret.op = "get_batch" /\ capacity >= 1) =>
    LET r == ring_buffers[ret.f]
    IN  (\A k \in 1..Len(ret.idxs) : RingGetItem(r, ret.idxs[k]).err = "none") =>
          /\ ret.err = "none"
          /\ \A k \in 1..Len(ret.idxs) : ret.vals[k] = RingGetItem(r, ret.idxs[k]).val

\* every ring took exactly one append in the step: its length is
\* min(previous length + 1, capacity), its newest entry is the value appended
\* (the FIFO queue's newest) and the entries it retained are as they were
AppendedOnce ==
  /\ Len(fifo') >= 1
  /\ \A f \in Fields :
       LET r == ring_buffers[f]
           r1 == ring_buffers'[f]
           shift == IF r.length < r.maxlen THEN 0 ELSE 1
       IN  /\ r1.length = Min(r.length + 1, capacity)
           /\ r1.length >= 1
           /\ RingGetItem(r1, r1.length - 1).val = fifo'[Len(fifo')][f]
           /\ \A i \in 0..(r1.length - 2) :
                RingGetItem(r1, i).val = RingGetItem(r, i + shift).val

\* C12 as claimed: an append whose transition has another key set than the
\* schema raises and leaves every ring's start, length and data unchanged; an
\* append whose transition has the schema's key set appends to every ring
\* exactly once.
C12_SchemaCheck ==
  [][ret'.op = "append" =>
       /\ ~ret'.keys => (ret'.err # "none" /\ ring_buffers' = ring_buffers)
       /\ ret'.keys => (ret'.err = "none" /\ AppendedOnce)]_vars

\* C12, the part that holds: a key set that differs is refused by the
\* assertion before any ring is touched, and an append that returns normally
\* has appended to every ring exactly once
C12_KeySetChecked ==
  [][ret'.op = "append" =>
       /\ ~ret'.keys => (ret'.err = "AssertionError" /\ ring_buffers' = ring_buffers)
       /\ ret'.err = "none" => (ret'.keys /\ AppendedOnce)]_vars

\* C13: construction with capacity <= 0 fails, so every store that exists has
\* capacity >= 1 and no append, get or other call ever runs on a store of
\* capacity 0.
C13_CapacityValidated ==
  ret.op # "idle" => capacity >= 1

\* the physical slots of the entries a ring retains
Slots(r) == {(r.start + i) % r.maxlen : i \in 0..(r.length - 1)}

\* C14: in every state the logical indices of [0, length) map to pairwise
\* distinct physical slots, and an append never writes a slot holding an entry
\* that is still retained: every entry the ring retains besides the newest
\* reads, through get, as it did before the append.
C14_NoSlotCollision ==
  [][\A f \in Fields :
       LET r == ring_buffers[f]
           r1 == ring_buffers'[f]
           shift == IF r.length < r.maxlen THEN 0 ELSE 1
       IN  /\ Cardinality(Slots(r)) = r.length
           /\ Cardinality(Slots(r1)) = r1.length
           /\ \A i, j \in 0..(r1.length - 1) :
                i # j => (r1.start + i) % r1.maxlen # (r1.start + j) % r1.maxlen
           /\ r1 # r =>
                \A i \in 0..(r1.length - 2) :
                  RingGetItem(r1, i).val = RingGetItem(r, i + shift).val]_vars

\* C14 witness: capacity 3 after 4 appends, the last of which has just evicted
\* serial 1 and written slot 0: the ring starts at slot 1 and still reads
\* serials 2, 3, 4 at logical indices 0, 1, 2
C14_Witness ==
  /\ ret.op = "append" /\ ret.err = "none"
  /\ capacity = 3 /\ nAppends = 4 /\ nFails = 0
  /\ ring_buffers["obs0"].start = 1 /\ ring_buffers["obs0"].length = 3
  /\ Slots(ring_buffers["obs0"]) = {0, 1, 2}
  /\ ring_buffers["obs0"].data[1] = 4
  /\ RingGetItem(ring_buffers["obs0"], 0).val = 2
  /\ RingGetItem(ring_buffers["obs0"], 2).val = 4

\* ==================================================== claims: the lookahead
\* a lookahead call has returned normally
LookaheadDone == ret.op = "lookahead" /\ ret.err = "none"

\* the stored value of field f at logical index i, read with get
Stored(f, i) == RingGetItem(ring_buffers[f], i).val

\* the last logical index of the window of idx under horizon n
WindowEnd(idx, n) == Min(idx + n, NumEntries(ring_buffers)) - 1

\* the terminal transitions of the window
TerminalsIn(idx, n) == {i \in idx..WindowEnd(idx, n) : Stored("dones1", i) = 1}

\* C4: for every sampled idx in [0, num_entries) and every horizon n >= 1 (a
\* valid gamma given) lookahead emits a td_len with
\* 1 <= td_len <= min(n, num_entries - idx); n = 1 gives td_len = 1 and
\* idx = num_entries - 1 gives td_len = 1.
C4_LookaheadBound ==
  ret.op = "lookahead" =>
    /\ \A k \in 1..Len(ret.idxs) :
         ret.idxs[k] >= 0 /\ ret.idxs[k] < NumEntries(ring_buffers)
    /\ (ret.n >= 1 /\ ret.g \in 0..GammaDen) => ret.err = "none"
    /\ ret.err = "none" =>
         /\ Len(ret.la) = Len(ret.idxs)
         /\ \A k \in 1..Len(ret.idxs) :
              LET idx == ret.idxs[k]
                  td_len == ret.la[k].td_len
              IN  /\ 1 <= td_len
                  /\ td_len <= Min(ret.n, NumEntries(ring_buffers) - idx)
                  /\ ret.n = 1 => td_len = 1
                  /\ idx = NumEntries(ring_buffers) - 1 => td_len = 1

\* C4 witness: 3 entries, none terminal; idx = 1 under n = 3 was cut to
\* td_len = 2 by the end of the store
C4_Witness ==
  /\ LookaheadDone /\ ret.n = 3 /\ Len(ret.idxs) = 1 /\ ret.idxs[1] = 1
  /\ NumEntries(ring_buffers) = 3 /\ TerminalsIn(0, 3) = {}
  /\ ret.la[1].td_len = 2

\* C5: td_len is 1 + the offset of the first stored terminal flag among the
\* logical indices [idx, window_end] when there is one, and
\* window_end - idx + 1 otherwise; no transition of the run before its last
\* is terminal.
C5_EpisodeTrim ==
  LookaheadDone =>
    \A k \in 1..Len(ret.idxs) :
      LET idx == ret.idxs[k]
          td_len == ret.la[k].td_len
          terms == TerminalsIn(idx, ret.n)
      IN  /\ terms # {} =>
                \E i \in terms : /\ \A j \in terms : i <= j
                                 /\ td_len = 1 + (i - idx)
          /\ terms = {} => td_len = WindowEnd(idx, ret.n) - idx + 1
          /\ \A j \in idx..(idx + td_len - 2) : Stored("dones1", j) # 1

\* C5 witness: flags [0, 1, 0], idx = 0, n = 3: td_len = 2
C5_Witness ==
  /\ LookaheadDone /\ ret.n = 3 /\ Len(ret.idxs) = 1 /\ ret.idxs[1] = 0
  /\ NumEntries(ring_buffers) = 3 /\ TerminalsIn(0, 3) = {1}
  /\ ret.la[1].td_len = 2

\* C6 as claimed: the dones1 that lookahead emits is 1 exactly when the
\* transition at offset td_len - 1, the last of the run, has its stored
\* terminal flag set, and 0 exactly when the run ended by the horizon or the
\* end of the store.
C6_TrimFlagIsTerminal ==
  LookaheadDone =>
    \A k \in 1..Len(ret.idxs) :
      LET idx == ret.idxs[k]
          td_len == ret.la[k].td_len
      IN  (ret.la[k].dones1 = 1) <=> (Stored("dones1", idx + td_len - 1) = 1)

\* C6 amended: the dones1 that lookahead emits is 1 exactly when the run was
\* cut short of its window by an episode boundary, that is when a stored
\* terminal flag is set strictly before the window end (the last transition of
\* the run is then terminal); it is 0 when the run reaches the window end, the
\* transition there being terminal or not.
C6_TrimFlagIsEarlyEnd ==
  LookaheadDone =>
    \A k \in 1..Len(ret.idxs) :
      LET idx == ret.idxs[k]
          td_len == ret.la[k].td_len
          window_end == WindowEnd(idx, ret.n)
      IN  /\ ret.la[k].dones1 \in {0, 1}
          /\ (ret.la[k].dones1 = 1) <=> (\E i \in TerminalsIn(idx, ret.n) : i < window_end)
          /\ (ret.la[k].dones1 = 1) <=> (idx + td_len - 1 < window_end)
          /\ ret.la[k].dones1 = 1 => Stored("dones1", idx + td_len - 1) = 1

\* C6 witness: flags [1, 0], idx = 0, n = 2: the run is cut to td_len = 1 by
\* the terminal transition at offset 0 and dones1 = 1 is emitted
C6_Witness ==
  /\ LookaheadDone /\ ret.n = 2 /\ Len(ret.idxs) = 1 /\ ret.idxs[1] = 0
  /\ NumEntries(ring_buffers) = 2 /\ TerminalsIn(0, 2) = {0}
  /\ ret.la[1].td_len = 1 /\ ret.la[1].dones1 = 1

RECURSIVE Pow(_, _)
Pow(b, e) == IF e <= 0 THEN 1 ELSE b * Pow(b, e - 1)

\* the reward of the run's transition at logical index i: the stored one, or
\* the relabeler's on that transition's stored (obs0, acs, obs1)
RunReward(i, patcher) ==
  IF patcher = "none" THEN Stored("rews", i)
  ELSE Patcher(<<Stored("obs0", i)>>, <<Stored("acs", i)>>, <<Stored("obs1", i)>>)[1]

\* GammaDen ^ (len - 1) times the sum over k < len of (g / GammaDen) ^ k times
\* the reward at idx + k
RECURSIVE WeightedSum(_, _, _, _, _)
WeightedSum(idx, len, g, patcher, k) ==
  IF k >= len THEN 0
  ELSE Pow(g, k) * Pow(GammaDen, len - 1 - k) * RunReward(idx + k, patcher)
         + WeightedSum(idx, len, g, patcher, k + 1)

RECURSIVE PlainSum(_, _, _, _)
PlainSum(idx, len, patcher, k) ==
  IF k >= len THEN 0 ELSE RunReward(idx + k, patcher) + PlainSum(idx, len, patcher, k + 1)

\* C8: the return lookahead emits is the sum over k in [0, td_len) of
\* gamma^k * reward_k of the run's first td_len rewards; with gamma = 0 it is
\* the reward at idx, with gamma = 1 the plain sum of the first td_len rewards.
C8_DiscountedReturn ==
  LookaheadDone =>
    \A k \in 1..Len(ret.idxs) :
      LET idx == ret.idxs[k]
          td_len == ret.la[k].td_len
          r == ret.la[k].rews
      IN  /\ r.den > 0
          /\ r.num * Pow(GammaDen, td_len - 1)
               = r.den * WeightedSum(idx, td_len, ret.g, ret.patcher, 0)
          /\ ret.g = 0 => r.num = r.den * RunReward(idx, ret.patcher)
          /\ ret.g = GammaDen => r.num = r.den * PlainSum(idx, td_len, ret.patcher, 0)

\* C8 witness: rewards 10, 20, 30 and flags [0, 1, 0]; idx = 0 under n = 3 and
\* gamma = 1/2 returned 10 + 20/2 = 20, the third reward left out
C8_Witness ==
  /\ LookaheadDone /\ ret.n = 3 /\ ret.g = 1 /\ ret.patcher = "none"
  /\ Len(ret.idxs) = 1 /\ ret.idxs[1] = 0
  /\ NumEntries(ring_buffers) = 3 /\ TerminalsIn(0, 3) = {1}
  /\ Stored("rews", 0) = 10 /\ Stored("rews", 1) = 20 /\ Stored("rews", 2) = 30
  /\ ret.la[1].td_len = 2
  /\ ret.la[1].rews.num = 20 * ret.la[1].rews.den

\* C10 as claimed: sample and la_sample on a store that took no append raise
\* for every batch_size and leave the store as constructed.
C10_EmptyStoreFails ==
  (ret.op \in {"sample", "la_sample"} /\ nAppends = 0 /\ capacity >= 1) =>
    /\ ret.err # "none"
    /\ ring_buffers = ReplayInit(capacity)

\* C10 amended: on a store that took no append they raise for every
\* batch_size other than 0; for batch_size = 0 they return an empty batch
\* (la_sample: given a gamma in [0, 1]); the store is left as constructed.
C10_EmptyStoreFailsNonEmptyBatch ==
  (ret.op \in {"sample", "la_sample"} /\ nAppends = 0) =>
    /\ ret.batch_size # 0 => ret.err # "none"
    /\ (ret.op = "sample" /\ ret.batch_size = 0) =>
         /\ ret.err = "none"
         /\ batch.has /\ \A f \in Fields \cup {"idxs"} : batch.tr[f] = <<>>
    /\ (ret.op = "la_sample" /\ ret.batch_size = 0) =>
         /\ ret.err = "none" <=> ret.g \in 0..GammaDen
         /\ ret.la = <<>>
    /\ ring_buffers = ReplayInit(capacity)

\* C10 witness: sample(1, None) on a fresh store of capacity 2 has raised
C10_Witness ==
  /\ ret.op = "sample" /\ ret.batch_size = 1 /\ ret.err = "ValueError"
  /\ nAppends = 0 /\ capacity = 2 /\ NumEntries(ring_buffers) = 0

\* C15 as claimed: whatever was appended between the sample call and the
\* lookahead call, the first pre-observation and the first action of each
\* lookahead record are those the sampled batch holds for that index.
C15_IndexStable ==
  LookaheadDone =>
    \A k \in 1..Len(ret.idxs) :
      /\ ret.la[k].obs0 = ret.sampled.obs0[k]
      /\ ret.la[k].acs = ret.sampled.acs[k]

\* the number of entries evicted between the sample call that drew the k-th
\* index and the lookahead call: pre-observations being serial numbers, the
\* oldest entry was the sampled serial minus idx then and is Stored("obs0", 0) now
EvictedSince(k) == Stored("obs0", 0) - (ret.sampled.obs0[k] - ret.idxs[k])

\* C15 amended: lookahead reads the transition its index denotes at the time
\* of the lookahead call.  That is the sampled transition when no append
\* evicted in between (appends to a store that is not full keep the index);
\* after e evictions it is the transition appended e positions later.
C15_IndexDenotesCurrent ==
  LookaheadDone =>
    \A k \in 1..Len(ret.idxs) :
      LET idx == ret.idxs[k]
          e == EvictedSince(k)
      IN  /\ ret.la[k].obs0 = Stored("obs0", idx)
          /\ ret.la[k].acs = Stored("acs", idx)
          /\ e >= 0
          /\ ret.la[k].obs0 = ret.sampled.obs0[k] + e
          /\ ret.la[k].acs = ret.sampled.acs[k] + e
          /\ nAppends <= capacity => e = 0
          /\ e = 0 <=> (/\ ret.la[k].obs0 = ret.sampled.obs0[k]
                        /\ ret.la[k].acs = ret.sampled.acs[k])

\* C15 witness: capacity 2 holding serials 1, 2; index 0 was sampled (serial
\* 1), a third append evicted serial 1, and lookahead on the batch returned
\* the record of serial 2
C15_Witness ==
  /\ LookaheadDone /\ capacity = 2 /\ nAppends = 3
  /\ ret.idxs = <<0>> /\ ret.sampled.obs0 = <<1>> /\ ret.sampled.acs = <<101>>
  /\ ret.la[1].obs0 = 2 /\ ret.la[1].acs = 102

\* ================================================ claims: frame and relabeling
\* the calls that read the store (len, num_entries and batchify run inside them)
ReadOps == {"get", "get_batch", "latest_entry_idx", "sample", "lookahead", "la_sample"}

\* C18: a call of get, get_batch, latest_entry_idx, sample, lookahead or
\* la_sample (and with them len, num_entries and batchify), returning or
\* raising, leaves start, length and data of every ring as they were; only an
\* append changes a ring; and no ring's length, hence num_entries, decreases
\* on any step.
C18_OnlyAppendMutates ==
  [][/\ ret'.op \in ReadOps => ring_buffers' = ring_buffers
     /\ ring_buffers' # ring_buffers => ret'.op = "append"
     /\ \A f \in Fields : RingLen(ring_buffers'[f]) >= RingLen(ring_buffers[f])
     /\ NumEntries(ring_buffers') >= NumEntries(ring_buffers)]_vars

\* C18 witness: capacity 3 after 4 appends; get(3) has just raised KeyError
\* and the rings still hold, oldest first, what the last 3 appends stored
C18_Witness ==
  /\ ret.op = "get" /\ ret.idx = 3 /\ ret.err = "KeyError"
  /\ capacity = 3 /\ nAppends = 4 /\ NumEntries(ring_buffers) = 3
  /\ \A f \in Fields : \A i \in 0..2 : Stored(f, i) = fifo[i + 1][f]

\* C19: with a relabeler the reward of every entry of sample's batch is the
\* relabeler's output on the stored (obs0, acs, obs1) of the transition at that
\* entry's index, which differs from its stored reward; without one it is the
\* stored reward.  The rewards lookahead sums are, likewise, the relabeler's
\* outputs or the stored rewards of the run's transitions.  The rewards ring
\* holds the rewards that were appended throughout.
C19_RewardRelabeling ==
  /\ (ret.op = "sample" /\ ret.err = "none") =>
       \A k \in 1..Len(batch.tr["idxs"]) :
         LET idx == batch.tr["idxs"][k]
             relabeled == Stored("obs0", idx) + Stored("acs", idx) - Stored("obs1", idx)
         IN  /\ ret.patcher = "patcher" =>
                  /\ batch.tr["rews"][k] = relabeled
                  /\ batch.tr["rews"][k] # Stored("rews", idx)
             /\ ret.patcher = "none" => batch.tr["rews"][k] = Stored("rews", idx)
  /\ LookaheadDone =>
       \A k \in 1..Len(ret.idxs) :
         LET idx == ret.idxs[k]
             td_len == ret.la[k].td_len
             r == ret.la[k].rews
             relabeled == Stored("obs0", idx) + Stored("acs", idx) - Stored("obs1", idx)
         IN  /\ r.num * Pow(GammaDen, td_len - 1)
                  = r.den * WeightedSum(idx, td_len, ret.g, ret.patcher, 0)
             /\ (td_len = 1 /\ ret.patcher = "patcher") =>
                  (r.num = r.den * relabeled /\ r.num # r.den * Stored("rews", idx))
             /\ (td_len = 1 /\ ret.patcher = "none") => r.num = r.den * Stored("rews", idx)
  /\ \A i \in 0..(NumEntries(ring_buffers) - 1) :
       /\ Stored("rews", i) = fifo[i + 1]["rews"]
       /\ Stored("rews", i) = 10 * Stored("obs0", i)

\* C19 witness: sample with a relabeler has returned index 0 of a store whose
\* oldest transition is serial 1 (obs0 1, acs 101, obs1 2, reward 10): the
\* batch's reward is 1 + 101 - 2 = 100 and the ring still holds 10
C19_Witness ==
  /\ ret.op = "sample" /\ ret.err = "none" /\ ret.patcher = "patcher"
  /\ batch.has /\ batch.tr["idxs"] = <<0>>
  /\ batch.tr["rews"] = <<100>>
  /\ Stored("rews", 0) = 10

\* ================================================ claims: rollout and learn
\* the environment step last taken is complete: its store_transition calls
\* are all made
StepStored == roll.nSteps >= 1 /\ roll.pc \in {"advance", "predict", "step"}

C17_PhaseOrdering ==
  [][/\ (ring_buffers' # ring_buffers \/ nAppends' # nAppends \/ nFails' # nFails) =>
          (lrn.pc = "next" /\ ~lrn.interacted /\ ~lrn.sampled)
     /\ lrn'.sampled => lrn'.interacted
     /\ (lrn.pc = "eval" \/ lrn'.pc = "eval") => ring_buffers' = ring_buffers]_vars

\* C17 witness: the second iteration, its rollout round over and both its
\* sample_batch calls made (g_steps = d_steps = 1), the store holding the
\* transitions of both rounds
C17_Witness ==
  /\ lrn.pc = "d_loop" /\ lrn.iters_so_far = 1
  /\ lrn.interacted /\ lrn.sampled /\ lrn.g = 1 /\ lrn.d = 1
  /\ hps.g_steps = 1 /\ hps.rollout_len = 2
  /\ roll.nSteps = 4 /\ nAppends >= 4

\* C20: whenever learn has the control (the generator is created and not yet
\* started, or suspended at its yield), every transition of every
\* environment step taken so far is stored: the generator stands at the top
\* of its loop, not between the two store_transition calls of a wrapped
\* terminal step, so that no sample_batch call runs between them.
C20_YieldBetweenSteps ==
  lrn.pc \in {"returned", "train", "g_loop", "d_loop", "eval", "count", "head", "interact", "end"} =>
    /\ roll.pc \in {"created", "predict"}
    /\ roll.pc = "predict" => roll.suspended
    /\ nAppends = roll.nSteps + (IF hps.wrap_absorb THEN roll.nTerminal ELSE 0)
    /\ roll.nSteps >= 1 =>
         roll.stored = IF hps.wrap_absorb /\ roll.done /\ ~roll.limit
                         THEN <<"real", "absorbing">> ELSE <<"real">>

\* C20 witness: a sample_batch call is due right after a round whose last
\* step was a wrapped terminal one: both its transitions are in the store
C20_Witness ==
  /\ lrn.pc = "g_loop" /\ lrn.g = 0 /\ hps.g_steps = 1
  /\ roll.pc = "predict" /\ roll.suspended
  /\ hps.wrap_absorb /\ roll.done /\ ~roll.limit
  /\ roll.stored = <<"real", "absorbing">>
  /\ capacity >= 2
  /\ fifo[Len(fifo)]["obs0"] = 0

\* C21: every roll_gen.__next__() call, the first included, performs exactly
\* rollout_len environment steps: when the call of iteration number
\* iters_so_far returns, (iters_so_far + 1) * rollout_len env.step calls were
\* made in all, and while it runs between iters_so_far * rollout_len and that
\* many.  So at the end of every iteration, the counters incremented,
\* timesteps_so_far is the number of env.step calls made, and before any
\* sample_batch call at least rollout_len transitions were stored.
C21_StepAccounting ==
  /\ lrn.pc \in {"returned", "train", "g_loop", "d_loop", "eval", "count"} =>
       /\ hps.rollout_len >= 1
       /\ roll.nSteps = (lrn.iters_so_far + 1) * hps.rollout_len
       /\ roll.t = roll.nSteps
       /\ lrn.timesteps_so_far = lrn.iters_so_far * hps.rollout_len
  /\ lrn.pc = "next" =>
       /\ lrn.iters_so_far * hps.rollout_len <= roll.nSteps
       /\ roll.nSteps <= (lrn.iters_so_far + 1) * hps.rollout_len
  /\ lrn.pc \in {"head", "interact", "end"} =>
       /\ lrn.timesteps_so_far = roll.nSteps
       /\ lrn.timesteps_so_far = lrn.iters_so_far * hps.rollout_len
  /\ (lrn.pc \in {"g_loop", "d_loop"} \/ lrn.sampled) =>
       /\ nAppends >= hps.rollout_len
       /\ nAppends >= roll.nSteps
       /\ NumEntries(ring_buffers) = Min(nAppends, capacity)

\* C21 witness: rollout_len = 2, two iterations over: timesteps_so_far is 4
\* and env.step was called 4 times
C21_Witness ==
  /\ lrn.pc = "head" /\ lrn.iters_so_far = 2
  /\ hps.rollout_len = 2
  /\ lrn.timesteps_so_far = 4 /\ roll.nSteps = 4 /\ roll.t = 4
  /\ nAppends >= 4
====
